---- MODULE Spec2Model ----
(***************************************************************************)
(* Model of the binary-plan post-processing of tidb-dashboard              *)
(* (pkg/apiserver/utils: GenerateBinaryPlanJSON and the three passes it    *)
(* runs over the decoded plan: formatBinaryPlanJSON, analyzeDuration,      *)
(* diagnosticOperator), together with the predicate matcher                *)
(* useComparisonOperator.                                                  *)
(*                                                                         *)
(* Go strings are TLA+ strings; positions are 1-based, 0 means "absent".   *)
(* JSON values held by the simplejson tree are tagged records:             *)
(*   [t |-> "str", s], [t |-> "num", n], [t |-> "obj", m], [t |-> "arr", a]*)
(*   and [t |-> "null"]; a missing key reads as JNull, as simplejson's Get *)
(*   on a missing key yields a Json holding nil.                           *)
(***************************************************************************)
EXTENDS Integers, Sequences, FiniteSets, TLC

VARIABLES
    pc,      \* position inside the call under analysis
    input,   \* the argument of the call (encoded plan text, predicate text)
    plan,    \* the simplejson tree: node id -> node, mutated in place by each pass
    conc,    \* per node: the concurrency state analyzeDurationNode received (history)
    writes,  \* per node: number of Set(Duration) / Set(Diagnosis) calls so far (history)
    ret      \* the returned (value, error) pair

vars == <<pc, input, plan, conc, writes, ret>>

---------------------------------------------------------------------------
(* Go's strings package, as used by the source.                            *)

Min(S) == CHOOSE x \in S : \A y \in S : x <= y

\* F(x): names the value x in what follows.  Strict computes x before F is
\* entered (an operator's argument is otherwise evaluated on first use); it
\* fixes the order of evaluation, not the value.
Let(x, F(_)) == F(x)
Strict(x, F(_)) == CASE x = x -> F(x)

Substr(s, i, j) == SubSeq(s, i, j)

\* strings.Index: first position of sep in s (1-based), 0 when absent.
Index(s, sep) ==
    Let({i \in 1..(Len(s) - Len(sep) + 1) : Substr(s, i, i + Len(sep) - 1) = sep},
        LAMBDA P : IF P = {} THEN 0 ELSE Min(P))

Contains(s, sub) == Index(s, sub) # 0

HasPrefix(s, p) == Len(s) >= Len(p) /\ Substr(s, 1, Len(p)) = p

HasSuffix(s, p) == Len(s) >= Len(p) /\ Substr(s, Len(s) - Len(p) + 1, Len(s)) = p

\* strings.Count: non-overlapping occurrences of sub (sub is never empty here).
RECURSIVE Count(_, _)
Count(s, sub) ==
    Let(Index(s, sub), LAMBDA i :
        IF i = 0 THEN 0
        ELSE 1 + Count(Substr(s, i + Len(sub), Len(s)), sub))

\* strings.TrimRight / TrimLeft: strip every trailing / leading character that
\* occurs in cutset (a set of characters, not a suffix).
RECURSIVE TrimRight(_, _)
TrimRight(s, cutset) ==
    IF Len(s) > 0 /\ Contains(cutset, Substr(s, Len(s), Len(s)))
    THEN TrimRight(Substr(s, 1, Len(s) - 1), cutset)
    ELSE s

RECURSIVE TrimLeft(_, _)
TrimLeft(s, cutset) ==
    IF Len(s) > 0 /\ Contains(cutset, Substr(s, 1, 1))
    THEN TrimLeft(Substr(s, 2, Len(s)), cutset)
    ELSE s

\* strings.TrimSpace (the inputs hold no white space but the blank).
TrimSpace(s) == TrimLeft(TrimRight(s, " "), " ")

\* strings.Split with a non-empty separator.
RECURSIVE Split(_, _)
Split(s, sep) ==
    Let(Index(s, sep), LAMBDA i :
        IF i = 0 THEN <<s>>
        ELSE <<Substr(s, 1, i - 1)>> \o Split(Substr(s, i + Len(sep), Len(s)), sep))

\* strings.ReplaceAll with a non-empty old.
RECURSIVE ReplaceAll(_, _, _)
ReplaceAll(s, old, new) ==
    Let(Index(s, old), LAMBDA i :
        IF i = 0 THEN s
        ELSE Substr(s, 1, i - 1) \o new
             \o ReplaceAll(Substr(s, i + Len(old), Len(s)), old, new))

\* cut: go 1.18 strings.Cut.
cut(s, sep) ==
    Let(Index(s, sep), LAMBDA i :
        IF i > 0
        THEN [before |-> Substr(s, 1, i - 1),
              after  |-> Substr(s, i + Len(sep), Len(s)),
              found  |-> TRUE]
        ELSE [before |-> s, after |-> "", found |-> FALSE])

---------------------------------------------------------------------------
(* useComparisonOperator                                                   *)

needCheckOperator == <<"eq", "ge", "gt", "le", "lt", "isnull", "in">>

\* "looks like a fully-qualified column": strings.Count(c, ".") == 2 and no quote.
IsColumn(c) == Count(c, ".") = 2 /\ ~Contains(c, "\"")

\* Lines 397-413, the two-argument operators: s1, s2 are the trimmed arguments,
\* rest the text with the span removed.
MatchPair(s1, s2, rest) ==
    Let(IsColumn(s1), LAMBDA first : Let(IsColumn(s2), LAMBDA second :
    Let(IF first THEN s1 ELSE IF second THEN s2 ELSE "", LAMBDA column :
    Let(IF first THEN s2 ELSE IF second THEN s1 ELSE "", LAMBDA c :
        [reject |-> HasPrefix(c, Split(column, ".")[1]),
         column |-> column,
         rest   |-> rest]))))

\* Lines 368-413 once the span is cut out: s1 is the text before "op(", s the
\* text between the parentheses, s2 the text after ")".
MatchArgs(op, operatorInfo, s1, s, s2) ==
    IF Contains(s, "(")
    THEN [reject |-> TRUE, column |-> "", rest |-> operatorInfo]
    ELSE IF op = "isnull"
    THEN [reject |-> FALSE,
          column |-> TrimSpace(s),
          rest   |-> IF HasSuffix(s1, "not(") /\ HasPrefix(s2, ")")
                     THEN TrimRight(s1, "not(") \o TrimLeft(s2, ")")
                     ELSE s1 \o s2]
    ELSE Let(Split(s, ","), LAMBDA slist :
         IF op = "in"
         THEN [reject |-> \E k \in 2..Len(slist) : IsColumn(TrimSpace(slist[k])),
               column |-> TrimSpace(slist[1]),
               rest   |-> s1 \o s2]
         ELSE IF Len(slist) # 2
         THEN [reject |-> TRUE, column |-> "", rest |-> operatorInfo]
         ELSE MatchPair(TrimSpace(slist[1]), TrimSpace(slist[2]), s1 \o s2))

\* One iteration of the inner loop (lines 362-415) for operator op on the
\* current text: [reject, column, rest].
MatchSpan(op, operatorInfo) ==
    Let(cut(operatorInfo, op \o "("), LAMBDA c1 :
    Let(cut(c1.after, ")"), LAMBDA c2 :
        MatchArgs(op, operatorInfo, c1.before, c2.before, c2.after)))

\* The n = strings.Count(operatorInfo, op+"(") iterations for one operator:
\* [reject, columns, rest].
RECURSIVE MatchSpans(_, _, _, _)
MatchSpans(op, n, operatorInfo, columnSet) ==
    IF n = 0
    THEN [reject |-> FALSE, columns |-> columnSet, rest |-> operatorInfo]
    ELSE Let(MatchSpan(op, operatorInfo), LAMBDA m :
         IF m.reject
         THEN [reject |-> TRUE, columns |-> columnSet, rest |-> operatorInfo]
         ELSE MatchSpans(op, n - 1, m.rest,
                         IF m.column # "" THEN columnSet \cup {m.column}
                         ELSE columnSet))

\* The outer loop over needCheckOperator from index k on:
\* [reject, used, columns, rest].
RECURSIVE MatchOperators(_, _, _, _)
MatchOperators(k, operatorInfo, used, columnSet) ==
    IF k > Len(needCheckOperator)
    THEN [reject |-> FALSE, used |-> used, columns |-> columnSet, rest |-> operatorInfo]
    ELSE IF ~Contains(operatorInfo, needCheckOperator[k])
    THEN MatchOperators(k + 1, operatorInfo, used, columnSet)
    ELSE Let(MatchSpans(needCheckOperator[k],
                        Count(operatorInfo, needCheckOperator[k] \o "("),
                        operatorInfo, columnSet), LAMBDA r :
         IF r.reject
         THEN [reject |-> TRUE, used |-> TRUE, columns |-> r.columns, rest |-> r.rest]
         ELSE MatchOperators(k + 1, r.rest, TRUE, r.columns))

\* matchVerdict without the single-column test of lines 423-426.
matchVerdictAnyColumns(r) ==
    IF r.reject THEN FALSE
    ELSE IF r.used
    THEN ~(Count(r.rest, "(") = Count(r.rest, ")") /\ Count(r.rest, "(") > 0)
    ELSE FALSE

\* Lines 418-429 after the loops.
matchVerdict(r) ==
    IF r.reject THEN FALSE
    ELSE IF r.used
    THEN IF Count(r.rest, "(") = Count(r.rest, ")") /\ Count(r.rest, "(") > 0
         THEN FALSE
         ELSE IF Cardinality(r.columns) # 1 THEN FALSE
         ELSE TRUE
    ELSE FALSE

useComparisonOperator(operatorInfo) ==
    matchVerdict(MatchOperators(1, operatorInfo, FALSE, {}))

---------------------------------------------------------------------------
(* simplejson values and accessors.                                        *)

JNull   == [t |-> "null"]
JStr(s) == [t |-> "str", s |-> s]
JNum(n) == [t |-> "num", n |-> n]
JObj(m) == [t |-> "obj", m |-> m]
JArr(a) == [t |-> "arr", a |-> a]

EmptyMap == [k \in {} |-> JNull]

\* (*Json).Get: a missing key, or a receiver that is no object, yields nil data.
Get(j, key) == IF j.t = "obj" /\ key \in DOMAIN j.m THEN j.m[key] ELSE JNull

\* (*Json).GetPath with two keys.
GetPath2(j, k1, k2) == Get(Get(j, k1), k2)

\* (*Json).Set: no effect on a receiver that is no object.
Set(j, key, val) == IF j.t = "obj" THEN JObj((key :> val) @@ j.m) ELSE j

\* MustString: "" unless the data is a string (a JSON number is json.Number
\* under UseNumber, which the type assertion to string rejects).
MustString(j) == IF j.t = "str" THEN j.s ELSE ""

\* MustFloat64: 0 unless the data is a number; a string is not converted.
MustFloat64(j) == IF j.t = "num" THEN j.n ELSE 0

MustArray(j) == IF j.t = "arr" THEN j.a ELSE <<>>

GetIndex(j, i) == IF j.t = "arr" /\ i \in 1..Len(j.a) THEN j.a[i] ELSE JNull

\* MustStringArray: nil entries read as "", any other non-string entry fails
\* the whole conversion and the default (no entries) is returned.
MustStringArray(j) ==
    Let(MustArray(j), LAMBDA a :
        IF \A i \in 1..Len(a) : a[i].t \in {"str", "null"}
        THEN [i \in 1..Len(a) |-> MustString(a[i])]
        ELSE <<>>)

---------------------------------------------------------------------------
(* simplejson.NewJson on the text formatJSON builds: json.Decoder.Decode   *)
(* reads one value and leaves what follows it unread.  The texts are made  *)
(* of objects and strings only; any other token is a syntax error here.    *)
(* The inputs hold no backslash and no control character.                  *)

CharAt(s, i) == IF i \in 1..Len(s) THEN Substr(s, i, i) ELSE ""

RECURSIVE SkipSpace(_, _)
SkipSpace(s, i) == IF CharAt(s, i) = " " THEN SkipSpace(s, i + 1) ELSE i

JsonErr == [err |-> TRUE, v |-> JNull, pos |-> 0]

\* A string token starting at the quote at position i.
scanString(s, i) ==
    Let(Index(Substr(s, i + 1, Len(s)), "\""), LAMBDA close :
        IF CharAt(s, i) # "\"" \/ close = 0 THEN JsonErr
        ELSE [err |-> FALSE, v |-> JStr(Substr(s, i + 1, i + close - 1)),
              pos |-> i + close + 1])

RECURSIVE scanValue(_, _)
RECURSIVE scanMembers(_, _, _)

\* After a member: "," continues the object, "}" ends it.
scanNext(s, e, m) ==
    IF CharAt(s, e) = "," THEN scanMembers(s, e + 1, m)
    ELSE IF CharAt(s, e) = "}" THEN [err |-> FALSE, v |-> JObj(m), pos |-> e + 1]
    ELSE JsonErr

\* The members of an object from position i (just before a key) on; a repeated
\* key keeps its last value, as assignment into a Go map does.
scanMembers(s, i, m) ==
    Let(scanString(s, SkipSpace(s, i)), LAMBDA k :
        IF k.err THEN JsonErr
        ELSE Let(SkipSpace(s, k.pos), LAMBDA c :
             IF CharAt(s, c) # ":" THEN JsonErr
             ELSE Let(scanValue(s, c + 1), LAMBDA v :
                  IF v.err THEN JsonErr
                  ELSE scanNext(s, SkipSpace(s, v.pos), (k.v.s :> v.v) @@ m))))

scanValue(s, i) ==
    Let(SkipSpace(s, i), LAMBDA j :
        IF CharAt(s, j) = "\"" THEN scanString(s, j)
        ELSE IF CharAt(s, j) = "{"
        THEN Let(SkipSpace(s, j + 1), LAMBDA e :
             IF CharAt(s, e) = "}"
             THEN [err |-> FALSE, v |-> JObj(EmptyMap), pos |-> e + 1]
             ELSE scanMembers(s, j + 1, EmptyMap))
        ELSE JsonErr)

NewJson(body) == Let(scanValue(body, 1), LAMBDA r : [err |-> r.err, v |-> r.v])

---------------------------------------------------------------------------
(* The formatting pass.                                                    *)

formatJSON(s) ==
    Strict("{" \o s \o "}",                 LAMBDA s0 :
    Strict(ReplaceAll(s0, "{", "{\""),       LAMBDA s1 :
    Strict(ReplaceAll(s1, "}", "\"}"),       LAMBDA s2 :
    Strict(ReplaceAll(s2, ":", "\":\""),     LAMBDA s3 :
    Strict(ReplaceAll(s3, ",", "\",\""),     LAMBDA s4 :
    Strict(ReplaceAll(s4, "\" ", "\""),      LAMBDA s5 :
    Strict(ReplaceAll(s5, "}\"", "}"),       LAMBDA s6 :
    Strict(ReplaceAll(s6, "\"{", "{"),       LAMBDA s7 :
    Strict(ReplaceAll(s7, "{\"\"}", "{}"),   LAMBDA s8 :
    NewJson(s8))))))))))

---------------------------------------------------------------------------
(* The plan document.  plan.node[id] is the JSON object of operator id     *)
(* without its "children" key, plan.kids[id] the ids of its children in    *)
(* plan order, plan.ctes the roots of the "ctes" array; MainTree is the    *)
(* root of "main".  An id stands for the *simplejson.Json of that node.    *)

MainTree == 1

SetNode(p, id, o) == [p EXCEPT !.node[id] = o]

\* needSetNA: "-1" becomes "N/A".
setNA(o, key) == IF MustString(Get(o, key)) = "-1" THEN Set(o, key, JStr("N/A")) ELSE o

\* The rootGroupExecInfo branch (lines 821-831): on a conversion error the
\* text is appended, and then sJSON (nil, marshalled as null) is appended too.
RECURSIVE formatGroupEntries(_, _)
formatGroupEntries(slist, k) ==
    IF k > Len(slist) THEN <<>>
    ELSE Strict(formatJSON(slist[k]), LAMBDA r :
         (IF r.err THEN <<JStr(slist[k]), JNull>> ELSE <<r.v>>)
         \o formatGroupEntries(slist, k + 1))

formatGroup(o) ==
    Set(o, "rootGroupExecInfo",
        JArr(formatGroupEntries(MustStringArray(Get(o, "rootGroupExecInfo")), 1)))

\* The else branch (lines 833-838) for rootBasicExecInfo and copExecInfo.
formatField(o, key) ==
    Strict(formatJSON(MustString(Get(o, key))), LAMBDA r :
    IF r.err THEN o ELSE Set(o, key, r.v))

\* Lines 813-840: what formatNode does to the node's own object.
formatFields(o) ==
    Strict(setNA(setNA(o, "memoryBytes"), "diskBytes"), LAMBDA o2 :
    Strict(formatGroup(o2), LAMBDA o3 :
    Strict(formatField(o3, "rootBasicExecInfo"), LAMBDA o4 :
    formatField(o4, "copExecInfo"))))

RECURSIVE formatNode(_, _)
RECURSIVE formatChildrenNodes(_, _, _)

formatNode(p, id) ==
    Strict(SetNode(p, id, formatFields(p.node[id])), LAMBDA q :
    formatChildrenNodes(q, q.kids[id], 1))

formatChildrenNodes(p, nodes, i) ==
    IF i > Len(nodes) THEN p
    ELSE Strict(formatNode(p, nodes[i]), LAMBDA q :
         formatChildrenNodes(q, nodes, i + 1))

\* formatBinaryPlanJSON: main, then ctes.  No step of it reports an error on a
\* document that decodes.
formatBinaryPlanJSON(p) ==
    Strict(formatNode(p, MainTree), LAMBDA q : formatChildrenNodes(q, q.ctes, 1))

---------------------------------------------------------------------------
(* strconv and time, on the texts the plans of this model hold.            *)

Digits == "0123456789"

IsDigit(c) == Len(c) = 1 /\ Contains(Digits, c)

AllDigits(s) == Len(s) > 0 /\ \A i \in 1..Len(s) : IsDigit(CharAt(s, i))

RECURSIVE digitsValue(_)
digitsValue(s) ==
    IF Len(s) = 0 THEN 0
    ELSE 10 * digitsValue(Substr(s, 1, Len(s) - 1)) + (Index(Digits, CharAt(s, Len(s))) - 1)

RECURSIVE Pow10(_)
Pow10(k) == IF k = 0 THEN 1 ELSE 10 * Pow10(k - 1)

\* Go's integer division and float-to-integer conversion truncate toward zero.
TruncDiv(a, b) ==
    IF b > 0 THEN (IF a >= 0 THEN a \div b ELSE -((-a) \div b))
    ELSE (IF a >= 0 THEN -(a \div (-b)) ELSE (-a) \div (-b))

\* The text after an optional sign.
unsigned(s) ==
    IF HasPrefix(s, "-") \/ HasPrefix(s, "+") THEN Substr(s, 2, Len(s)) ELSE s

\* strconv.Atoi: [err, n]; n is 0 on error.
Atoi(s) ==
    Let(unsigned(s), LAMBDA body :
        IF AllDigits(body)
        THEN Let(digitsValue(body), LAMBDA n :
                 [err |-> FALSE, n |-> IF HasPrefix(s, "-") THEN -n ELSE n])
        ELSE [err |-> TRUE, n |-> 0])

\* The decimal ip.fp, negated when neg: the value is num/den.
parseDecimal(neg, ip, fp) ==
    IF /\ Len(ip) + Len(fp) > 0
       /\ \A i \in 1..Len(ip) : IsDigit(CharAt(ip, i))
       /\ \A i \in 1..Len(fp) : IsDigit(CharAt(fp, i))
    THEN Let(digitsValue(ip) * Pow10(Len(fp)) + digitsValue(fp), LAMBDA mag :
             [err |-> FALSE, num |-> IF neg THEN -mag ELSE mag, den |-> Pow10(Len(fp))])
    ELSE [err |-> TRUE, num |-> 0, den |-> 1]

\* strconv.ParseFloat on decimal texts without exponent: the value is num/den.
\* (Exponents, hexadecimal floats, "inf" and "nan" are not among the inputs.)
ParseFloat(s) ==
    Let(unsigned(s), LAMBDA body : Let(Index(body, "."), LAMBDA dot :
        parseDecimal(HasPrefix(s, "-"),
                     IF dot = 0 THEN body ELSE Substr(body, 1, dot - 1),
                     IF dot = 0 THEN "" ELSE Substr(body, dot + 1, Len(body)))))

\* time.Duration is an int64 count of nanoseconds.  Every duration this model
\* computes from plan texts is below one microsecond in magnitude; the two
\* values below stand for math.MinInt64 and math.MaxInt64, which only the
\* conversion of a non-finite float64 produces, and take part in comparisons only.
minDuration == -(2147483647)
maxDuration == (2147483647)

minDurationText == "-2562047h47m16.854775808s"
maxDurationText == "2562047h47m16.854775807s"

\* time.Duration.String.
DurationString(d) ==
    IF d = 0 THEN "0s"
    ELSE IF d = minDuration THEN minDurationText
    ELSE IF d = maxDuration THEN maxDurationText
    ELSE ToString(d) \o "ns"

unitMap == [ns |-> 1, us |-> 1000, ms |-> 1000000, s |-> 1000000000]

RECURSIVE leadingDigits(_)
leadingDigits(s) ==
    IF Len(s) > 0 /\ IsDigit(CharAt(s, 1)) THEN 1 + leadingDigits(Substr(s, 2, Len(s))) ELSE 0

RECURSIVE leadingUnit(_)
leadingUnit(s) ==
    IF Len(s) > 0 /\ ~IsDigit(CharAt(s, 1)) /\ CharAt(s, 1) # "."
    THEN 1 + leadingUnit(Substr(s, 2, Len(s))) ELSE 0

\* The loop of time.ParseDuration over "<digits><unit>" groups: [err, d].
\* (Fractions and the units m and h occur only in the two extreme texts.)
RECURSIVE parseGroups(_, _)
parseGroups(s, acc) ==
    IF s = "" THEN [err |-> FALSE, d |-> acc]
    ELSE Let(leadingDigits(s),             LAMBDA nd :
         Let(Substr(s, nd + 1, Len(s)),    LAMBDA r1 :
         Let(leadingUnit(r1),              LAMBDA nu :
         Let(Substr(r1, 1, nu),            LAMBDA u :
             IF nd = 0 \/ nu = 0 \/ u \notin DOMAIN unitMap
             THEN [err |-> TRUE, d |-> 0]
             ELSE parseGroups(Substr(r1, nu + 1, Len(r1)),
                              acc + digitsValue(Substr(s, 1, nd)) * unitMap[u])))))

ParseDuration(s) ==
    IF s = minDurationText THEN [err |-> FALSE, d |-> minDuration]
    ELSE IF s = maxDurationText THEN [err |-> FALSE, d |-> maxDuration]
    ELSE Let(unsigned(s), LAMBDA body :
         IF body = "0" THEN [err |-> FALSE, d |-> 0]
         ELSE IF body = "" THEN [err |-> TRUE, d |-> 0]
         ELSE Let(parseGroups(body, 0), LAMBDA r :
              IF r.err THEN [err |-> TRUE, d |-> 0]
              ELSE [err |-> FALSE, d |-> IF HasPrefix(s, "-") THEN -r.d ELSE r.d]))

\* time.Duration(x) for a float64 x that is not finite: the Go specification
\* leaves the result to the implementation.  amd64 (CVTTSD2SQ) yields MinInt64
\* for every such x; arm64 (FCVTZS) saturates and maps NaN to 0.
Builds == {"amd64", "arm64"}

nonFinite(build, x) ==
    IF build = "amd64" THEN minDuration
    ELSE IF x = "+Inf" THEN maxDuration
    ELSE IF x = "-Inf" THEN minDuration
    ELSE 0

\* time.Duration(float64(a) / float64(b)).
divDuration(build, a, b) ==
    IF b # 0 THEN TruncDiv(a, b)
    ELSE nonFinite(build, IF a > 0 THEN "+Inf" ELSE IF a < 0 THEN "-Inf" ELSE "NaN")

---------------------------------------------------------------------------
(* Operator kinds and the concurrency state.                               *)

JoinTaskThreshold == 10000

operatorKind(operator) ==
    IF HasPrefix(operator, "IndexJoin") THEN "IndexJoin"
    ELSE IF HasPrefix(operator, "IndexMergeJoin") THEN "IndexMergeJoin"
    ELSE IF HasPrefix(operator, "IndexHashJoin") THEN "IndexHashJoin"
    ELSE IF HasPrefix(operator, "Apply") THEN "Apply"
    ELSE IF HasPrefix(operator, "Shuffle") /\ ~Contains(operator, "ShuffleReceiver")
         THEN "Shuffle"
    ELSE IF HasPrefix(operator, "ShuffleReceiver") THEN "ShuffleReceiver"
    ELSE IF HasPrefix(operator, "IndexLookUp") THEN "IndexLookUpReader"
    ELSE IF HasPrefix(operator, "IndexMerge") THEN "IndexMergeReader"
    ELSE IF HasPrefix(operator, "IndexFullScan") THEN "IndexFullScan"
    ELSE IF HasPrefix(operator, "IndexRangeScan") THEN "IndexRangeScan"
    ELSE IF HasPrefix(operator, "TableFullScan") THEN "TableFullScan"
    ELSE IF HasPrefix(operator, "TableRangeScan") THEN "TableRangeScan"
    ELSE IF HasPrefix(operator, "TableRowIDScan") THEN "TableRowIDScan"
    ELSE IF HasPrefix(operator, "Selection") THEN "Selection"
    ELSE "Default"

getOperatorType(node) == operatorKind(MustString(Get(node, "name")))

JoinKinds   == {"IndexJoin", "IndexMergeJoin", "IndexHashJoin"}
ReaderKinds == {"IndexLookUpReader", "IndexMergeReader"}
ScanKinds   == {"IndexFullScan", "IndexRangeScan", "TableFullScan", "TableRangeScan",
                "TableRowIDScan", "Selection"}

newConcurrency ==
    [joinConcurrency |-> 1, copConcurrency |-> 1, tableConcurrency |-> 1,
     applyConcurrency |-> 1, shuffleConcurrency |-> 1]

\* joinConcurrency * tableConcurrency * applyConcurrency * shuffleConcurrency
product4(c) ==
    c.joinConcurrency * c.tableConcurrency * c.applyConcurrency * c.shuffleConcurrency

product5(c) == product4(c) * c.copConcurrency

\* strconv.Atoi with the error dropped.
atoi0(j) == Atoi(MustString(j)).n

\* Lines 666-680.
joinEntry(e, c) ==
    Let(atoi0(GetPath2(e, "inner", "concurrency")), LAMBDA tmpJoinConcurrency :
    Let(atoi0(GetPath2(e, "inner", "task")),        LAMBDA joinTaskCount :
    Let(IF joinTaskCount < tmpJoinConcurrency THEN joinTaskCount
        ELSE tmpJoinConcurrency,                    LAMBDA eff :
        IF eff > 0 THEN [c EXCEPT !.joinConcurrency = eff * c.joinConcurrency] ELSE c)))

\* Lines 682-687.
applyEntry(e, c) ==
    Let(atoi0(Get(e, "Concurrency")), LAMBDA tmpApplyConcurrency :
        IF tmpApplyConcurrency > 0
        THEN [c EXCEPT !.applyConcurrency = tmpApplyConcurrency * c.applyConcurrency]
        ELSE c)

\* Lines 689-702.
tableEntry(e, c) ==
    Let(atoi0(GetPath2(e, "table_task", "concurrency")), LAMBDA tmpTableConcurrency :
    Let(TruncDiv(atoi0(GetPath2(e, "table_task", "num")), c.joinConcurrency),
                                                         LAMBDA tableTaskNum :
    Let(IF tableTaskNum < tmpTableConcurrency THEN tableTaskNum
        ELSE tmpTableConcurrency,                        LAMBDA eff :
        IF eff > 0 THEN [c EXCEPT !.tableConcurrency = eff * c.copConcurrency] ELSE c)))

\* Lines 704-710.
shuffleEntry(e, c) ==
    Let(atoi0(Get(e, "ShuffleConcurrency")), LAMBDA tmpSuffleConcurrency :
        IF tmpSuffleConcurrency > 0
        THEN [c EXCEPT !.shuffleConcurrency = tmpSuffleConcurrency * c.shuffleConcurrency]
        ELSE c)

\* Lines 713-717.
copEntry(e, c) ==
    Let(atoi0(GetPath2(e, "cop_task", "distsql_concurrency")), LAMBDA tmpCopConcurrency :
        IF tmpCopConcurrency > 0
        THEN [c EXCEPT !.copConcurrency = tmpCopConcurrency * c.copConcurrency]
        ELSE c)

\* One iteration of the loop of getConcurrency.
concurrencyEntry(e, operator, c) ==
    Strict(IF operator \in JoinKinds THEN joinEntry(e, c)
           ELSE IF operator = "Apply" THEN applyEntry(e, c)
           ELSE IF operator \in ReaderKinds THEN tableEntry(e, c)
           ELSE IF operator = "Shuffle" THEN shuffleEntry(e, c)
           ELSE c, LAMBDA c1 : copEntry(e, c1))

RECURSIVE concurrencyLoop(_, _, _, _)
concurrencyLoop(rootGroupInfo, i, operator, c) ==
    IF i > Len(MustArray(rootGroupInfo)) THEN c
    ELSE Strict(concurrencyEntry(GetIndex(rootGroupInfo, i), operator, c), LAMBDA c1 :
         concurrencyLoop(rootGroupInfo, i + 1, operator, c1))

getConcurrency(node, operator, c) ==
    concurrencyLoop(Get(node, "rootGroupExecInfo"), 1, operator, c)

---------------------------------------------------------------------------
(* Attributed duration of one node.                                        *)

getOperatorDuratuon(ts, c, build) ==
    Let(ParseDuration(ts), LAMBDA t :
        IF t.err THEN "0s"
        ELSE DurationString(divDuration(build, t.d, product4(c))))

\* float64(taskCount) / float64(product5) > 1
ratioAboveOne(taskCount, p) ==
    IF p > 0 THEN taskCount > p
    ELSE IF p < 0 THEN taskCount < p
    ELSE taskCount > 0

\* time.Duration(float64(avgDuration) * n) with n = taskCount / product5.
\* (The model's task counts and products make the float64 quotient exact.)
scaledAvg(build, avg, taskCount, p) ==
    IF p # 0 THEN TruncDiv(avg * taskCount, p)
    ELSE IF taskCount = 0 \/ avg = 0 THEN nonFinite(build, "NaN")
    ELSE nonFinite(build, IF (avg > 0) = (taskCount > 0) THEN "+Inf" ELSE "-Inf")

\* The "cop" case (lines 730-761) on the task record of the node's store.
copDuration(task, c, build) ==
    Let(atoi0(Get(task, "tasks")),                    LAMBDA taskCount :
    Let(MustString(Get(task, "proc max")),            LAMBDA maxTS :
    Let(ParseDuration(maxTS),                         LAMBDA maxD :
        IF maxD.err THEN maxTS
        ELSE Let(ParseDuration(MustString(Get(task, "avg"))), LAMBDA avgD :
             IF avgD.err THEN maxTS
             ELSE Let(IF ratioAboveOne(taskCount, product5(c))
                      THEN scaledAvg(build, avgD.d, taskCount, product5(c))
                      ELSE divDuration(build, avgD.d, product4(c)), LAMBDA tsDuration :
                  IF tsDuration > maxD.d THEN maxTS
                  ELSE DurationString(tsDuration))))))

getCopTaskDuratuon(node, c, build) ==
    Let(GetPath2(node, "copExecInfo", MustString(Get(node, "storeType")) \o "_task"),
        LAMBDA task :
    Let(MustString(Get(task, "time")),     LAMBDA ts :
    Let(MustString(Get(node, "taskType")), LAMBDA taskType :
        IF ts # "" THEN ts
        ELSE IF taskType = "cop" THEN copDuration(task, c, build)
        ELSE IF taskType \in {"batchCop", "mpp"} THEN MustString(Get(task, "proc max"))
        ELSE "0s")))

---------------------------------------------------------------------------
(* The duration pass.  A world w holds the document and the two history    *)
(* variables; a result is [w, d, err, panic].                              *)

Result(w, d, err, panic) == [w |-> w, d |-> d, err |-> err, panic |-> panic]

Failed(r) == r.err \/ r.panic

driverSide(w, id) == MustString(Get(w.plan.node[id], "driverSide"))

\* First position in nodes whose driverSide is side, 0 if there is none.
firstWithSide(w, nodes, side) ==
    Let({i \in 1..Len(nodes) : driverSide(w, nodes[i]) = side}, LAMBDA P :
        IF P = {} THEN 0 ELSE Min(P))

Max(S) == CHOOSE x \in S : \A y \in S : x >= y

SeqMax(ds) == Max({ds[i] : i \in 1..Len(ds)})

\* node.Set(Duration, text), counted.
setDuration(w, id, text) ==
    [w EXCEPT !.plan.node[id] = Set(@, "duration", JStr(text)),
              !.writes[id].duration = @ + 1]

\* Lines 516-527: the last non-empty cacheHitRatio of the entries, as num/den.
RECURSIVE cacheHitLoop(_, _, _)
cacheHitLoop(rootGroupInfo, i, cur) ==
    IF i > Len(MustArray(rootGroupInfo)) THEN cur
    ELSE Let(TrimRight(MustString(Get(GetIndex(rootGroupInfo, i), "cacheHitRatio")), "%"),
             LAMBDA cacheHitRatioStr :
         IF cacheHitRatioStr = "" THEN cacheHitLoop(rootGroupInfo, i + 1, cur)
         ELSE Let(ParseFloat(cacheHitRatioStr), LAMBDA f :
              IF f.err THEN f ELSE cacheHitLoop(rootGroupInfo, i + 1, f)))

\* int(actRows * (1 - cacheHitRatio/100)) for actRows = a.num/a.den and
\* cacheHitRatio = h.num/h.den.  (The model's ratios make the float64 product exact.)
taskCountOf(a, h) == TruncDiv(a.num * (100 * h.den - h.num), a.den * 100 * h.den)

\* Lines 515-538: the probe concurrency derived from the build child n:
\* [err, c].
probeConcurrency(n, c) ==
    Let(cacheHitLoop(Get(n, "rootGroupExecInfo"), 1, [err |-> FALSE, num |-> 0, den |-> 1]),
        LAMBDA cacheHitRatio :
        IF cacheHitRatio.err THEN [err |-> TRUE, c |-> c]
        ELSE Let(ParseFloat(MustString(Get(n, "actRows"))), LAMBDA actRows :
             IF actRows.err THEN [err |-> TRUE, c |-> c]
             ELSE Let(taskCountOf(actRows, cacheHitRatio), LAMBDA taskCount :
                  [err |-> FALSE,
                   c   |-> IF taskCount < c.applyConcurrency
                           THEN [c EXCEPT !.applyConcurrency = taskCount] ELSE c])))

\* childConcurrency with the override made for a child of any driver side.
childConcurrencyAnySide(operator, side, c) ==
    IF operator \in JoinKinds THEN [c EXCEPT !.joinConcurrency = 1]
    ELSE IF operator \in ReaderKinds THEN [c EXCEPT !.tableConcurrency = 1]
    ELSE IF operator = "ShuffleReceiver" THEN [c EXCEPT !.shuffleConcurrency = 1]
    ELSE c

\* Lines 561-587: the state a child of a non-Apply parent is analyzed with.
childConcurrency(operator, side, c) ==
    IF operator \in JoinKinds
    THEN (IF side = "probe" THEN c ELSE [c EXCEPT !.joinConcurrency = 1])
    ELSE IF operator \in ReaderKinds
    THEN (IF side = "probe" THEN c ELSE [c EXCEPT !.tableConcurrency = 1])
    ELSE IF operator = "ShuffleReceiver" THEN [c EXCEPT !.shuffleConcurrency = 1]
    ELSE c

RECURSIVE analyzeDurationNode(_, _, _, _)
RECURSIVE analyzeDurationNodes(_, _, _, _, _)
RECURSIVE analyzeEach(_, _, _, _, _, _, _)

\* Lines 479-490: the end of analyzeDurationNode, sub being the children's result.
finishNode(id, duration, sub) ==
    IF Failed(sub) THEN Result(sub.w, 0, sub.err, sub.panic)
    ELSE Let(IF duration < sub.d THEN sub.d ELSE duration, LAMBDA final :
         Result(setDuration(sub.w, id, DurationString(final)), final, FALSE, FALSE))

analyzeDurationNode(w, id, c, build) ==
    Let(w.plan.node[id],                                         LAMBDA node :
    Let(MustString(GetPath2(node, "rootBasicExecInfo", "time")), LAMBDA rootTs :
    Strict(ParseDuration(IF rootTs = "" THEN getCopTaskDuratuon(node, c, build)
                         ELSE getOperatorDuratuon(rootTs, c, build)), LAMBDA parsed :
    Let(getOperatorType(node),                                   LAMBDA operator :
    Strict(getConcurrency(node, operator, c),                    LAMBDA c1 :
    Strict(analyzeDurationNodes([w EXCEPT !.conc[id] = Append(@, c)],
                                w.plan.kids[id], operator, c1, build), LAMBDA sub :
    finishNode(id, IF parsed.err THEN 0 ELSE parsed.d, sub)))))))

\* The loop of lines 556-593 from child i on; ds are the durations so far.
analyzeEach(w, nodes, i, operator, c, build, ds) ==
    IF i > Len(nodes) THEN Result(w, SeqMax(ds), FALSE, FALSE)
    ELSE Strict(analyzeDurationNode(w, nodes[i],
                    childConcurrency(operator, driverSide(w, nodes[i]), c), build),
                LAMBDA r :
         IF Failed(r) THEN Result(r.w, 0, r.err, r.panic)
         ELSE analyzeEach(r.w, nodes, i + 1, operator, c, build, Append(ds, r.d)))

\* Lines 540-551: the first probe child, analyzed with the state pcn.c; rb is
\* the build child's result and bds its duration, if there was one.
applyProbe(rb, bds, nodes, pcn, build) ==
    Let(firstWithSide(rb.w, nodes, "probe"), LAMBDA pi :
        IF pi = 0
        \* durations[0] on an empty slice: index out of range
        THEN (IF bds = <<>> THEN Result(rb.w, 0, FALSE, TRUE)
              ELSE Result(rb.w, SeqMax(bds), FALSE, FALSE))
        ELSE Strict(analyzeDurationNode(rb.w, nodes[pi], pcn.c, build), LAMBDA rp :
             IF Failed(rp) THEN Result(rp.w, 0, rp.err, rp.panic)
             ELSE Result(rp.w, SeqMax(Append(bds, rp.d)), FALSE, FALSE)))

\* Lines 505-551: the children of an Apply.
applyNodes(w, nodes, c, build) ==
    Let(firstWithSide(w, nodes, "build"), LAMBDA bi :
        IF bi = 0
        THEN applyProbe(Result(w, 0, FALSE, FALSE), <<>>, nodes,
                        [err |-> FALSE, c |-> c], build)
        ELSE Strict(analyzeDurationNode(w, nodes[bi],
                                        [c EXCEPT !.applyConcurrency = 1], build),
                    LAMBDA rb :
             IF Failed(rb) THEN Result(rb.w, 0, rb.err, rb.panic)
             ELSE Let(probeConcurrency(rb.w.plan.node[nodes[bi]], c), LAMBDA pcn :
                  IF pcn.err THEN Result(rb.w, 0, TRUE, FALSE)
                  ELSE applyProbe(rb, <<rb.d>>, nodes, pcn, build))))

analyzeDurationNodes(w, nodes, operator, c, build) ==
    IF Len(nodes) = 0 THEN Result(w, 0, FALSE, FALSE)
    ELSE IF operator = "Apply" THEN applyNodes(w, nodes, c, build)
    ELSE analyzeEach(w, nodes, 1, operator, c, build, <<>>)

\* analyzeDuration: main, the root's duration overwritten by its raw time
\* text, then the ctes with a fresh state.
analyzeDuration(w, build) ==
    Let(MustString(GetPath2(w.plan.node[MainTree], "rootBasicExecInfo", "time")),
        LAMBDA rootTs :
    Strict(analyzeDurationNode(w, MainTree, newConcurrency, build), LAMBDA m :
        IF Failed(m) THEN m
        ELSE analyzeDurationNodes(setDuration(m.w, MainTree, rootTs), w.plan.ctes,
                                  "Default", newConcurrency, build)))

---------------------------------------------------------------------------
(* The diagnostic pass.                                                    *)

MsgPseudoStats == "This operator used pseudo statistics and the estimation might be inaccurate. It might be caused by unavailable or outdated statistics. Consider collecting statistics or setting variable tidb_enable_pseudo_for_outdated_stats to OFF."
MsgDiskSpill == "Disk spill is triggered for this operator because the memory quota is exceeded. The execution might be slow. Consider increasing the memory quota if there's enough memory."
MsgEstimation == "The estimation error is high. Consider checking the health state of the statistics."
MsgLargeBuild == "This index join has a large build side. It might be slow and cause heavy pressure on TiKV. Consider using the optimizer hints to guide the optimizer to choose hash join."
MsgIndexLookup == "This IndexLookup read a lot of data from the index side. It might be slow and cause heavy pressure on TiKV. Consider using the optimizer hints to guide the optimizer to choose a better index or not to use index."
MsgAddIndex == "This Selection filters a high proportion of data. Using an index on this column might achieve better performance. Consider adding an index on this column if there is not one."
MsgTiFlash == "The TiKV read a lot of data. Consider using TiFlash to get better performance if it's necessary to read so much data."

Upper == "ABCDEFGHIJKLMNOPQRSTUVWXYZ"
Lower == "abcdefghijklmnopqrstuvwxyz"

\* strings.ToLower on ASCII text.
RECURSIVE ToLower(_)
ToLower(s) ==
    IF s = "" THEN ""
    ELSE Let(Index(Upper, CharAt(s, 1)), LAMBDA u :
         (IF u = 0 THEN CharAt(s, 1) ELSE CharAt(Lower, u))
         \o ToLower(Substr(s, 2, Len(s))))

SystemSchemas == {"information_schema", "metrics_schema", "performance_schema", "mysql"}

\* Lines 200-208.
pseudoStats(node) ==
    IF /\ Contains(MustString(Get(node, "operatorInfo")), "stats:pseudo")
       /\ ToLower(MustString(GetPath2(node, "scanObject", "database"))) \notin SystemSchemas
    THEN <<MsgPseudoStats>> ELSE <<>>

\* Lines 210-214.
diskSpill(node) ==
    IF MustString(Get(node, "diskBytes")) # "N/A" THEN <<MsgDiskSpill>> ELSE <<>>

\* x / y > k in float64, for whole numbers x >= 0, y >= 0 and k > 0.
quotientAbove(x, y, k) ==
    IF y = 0 THEN x > 0 ELSE x > 0 /\ (x - 1) \div k >= y

\* Lines 222-230: when either count is zero both are replaced by 1.
estimationError(node) ==
    Let(MustFloat64(Get(node, "actRows")), LAMBDA a0 :
    Let(MustFloat64(Get(node, "estRows")), LAMBDA e0 :
    Let(IF a0 = 0 \/ e0 = 0 THEN 1 ELSE a0, LAMBDA actRows :
    Let(IF a0 = 0 \/ e0 = 0 THEN 1 ELSE e0, LAMBDA estRows :
        IF quotientAbove(actRows, estRows, 100) \/ quotientAbove(estRows, actRows, 100)
        THEN <<MsgEstimation>> ELSE <<>>))))

\* Lines 239-252.
largeBuildSide(node) ==
    Let(Get(node, "rootGroupExecInfo"), LAMBDA rootGroupInfo :
        IF \E i \in 1..Len(MustArray(rootGroupInfo)) :
               atoi0(GetPath2(GetIndex(rootGroupInfo, i), "inner", "task")) > JoinTaskThreshold
        THEN <<MsgLargeBuild>> ELSE <<>>)

\* x / y > returnTableThreshold (0.7) in float64, for whole numbers x, y >= 0.
aboveReturnTableThreshold(x, y) ==
    IF y = 0 THEN x > 0 ELSE 10 * x > 7 * y

\* getBuildChildrenWithDriverSide: the id of the first such child, 0 for nil.
getBuildChildrenWithDriverSide(w, id, side) ==
    Let(firstWithSide(w, w.plan.kids[id], side), LAMBDA i :
        IF i = 0 THEN 0 ELSE w.plan.kids[id][i])

\* Lines 265-275, gNode being the only child of cNode.
indexSideRule(cNode, gNode) ==
    IF getOperatorType(gNode) # "IndexFullScan" THEN <<>>
    ELSE IF ~Contains(MustString(Get(gNode, "operatorInfo")), "keep order:false") THEN <<>>
    ELSE IF aboveReturnTableThreshold(MustFloat64(Get(cNode, "actRows")),
                                      MustFloat64(Get(gNode, "actRows")))
    THEN <<MsgIndexLookup>> ELSE <<>>

\* Lines 254-276, for a build-side child cid that exists.
indexLookupRule(w, cid) ==
    IF getOperatorType(w.plan.node[cid]) # "Selection" THEN <<>>
    ELSE IF Len(w.plan.kids[cid]) # 1 THEN <<>>
    ELSE indexSideRule(w.plan.node[cid], w.plan.node[w.plan.kids[cid][1]])

\* Lines 282-295, cNode being the only child of node.
filterRule(node, cNode) ==
    IF getOperatorType(cNode) # "IndexFullScan" THEN <<>>
    ELSE IF MustString(Get(node, "storeType")) # "tikv" THEN <<>>
    ELSE IF ~useComparisonOperator(MustString(Get(node, "operatorInfo"))) THEN <<>>
    ELSE IF /\ MustFloat64(Get(node, "actRows")) < 10000
            /\ MustFloat64(Get(cNode, "actRows")) > 5000000
    THEN <<MsgAddIndex>> ELSE <<>>

\* Lines 277-296.
selectionRule(w, id) ==
    IF Len(w.plan.kids[id]) # 1 THEN <<>>
    ELSE filterRule(w.plan.node[id], w.plan.node[w.plan.kids[id][1]])

\* Lines 298-301.
tableFullScanRule(node) ==
    IF /\ MustString(Get(node, "storeType")) = "tikv"
       /\ MustFloat64(Get(node, "actRows")) > 1000000000
    THEN <<MsgTiFlash>> ELSE <<>>

\* The switch of lines 237-302; cid is the first build-side child, 0 for nil.
operatorRule(w, id, operator, cid) ==
    IF operator \in JoinKinds THEN largeBuildSide(w.plan.node[id])
    ELSE IF operator = "IndexLookUpReader" THEN indexLookupRule(w, cid)
    ELSE IF operator = "Selection" THEN selectionRule(w, id)
    ELSE IF operator = "TableFullScan" THEN tableFullScanRule(w.plan.node[id])
    ELSE <<>>

\* node.Set(Diagnosis, diagnosis), counted.
setDiagnosis(w, id, diagnosis) ==
    [w EXCEPT !.plan.node[id] =
                  Set(@, "diagnosis", JArr([i \in 1..Len(diagnosis) |-> JStr(diagnosis[i])])),
              !.writes[id].diagnosis = @ + 1]

\* A result of the diagnostic pass is [w, need, panic]: need is
\* diagOp.needUdateStatistics.  No step of the pass creates an error value.
DResult(w, need, panic) == [w |-> w, need |-> need, panic |-> panic]

RECURSIVE diagnosticOperatorNode(_, _, _)
RECURSIVE diagnosticOperatorNodes(_, _, _)
RECURSIVE diagnoseEach(_, _, _, _, _)

\* diagnoseNode without the reset of the default branch (line 234): the flag
\* the children left is handed up by every operator kind.
diagnoseNodeKeepFlag(w, id, operator, need) ==
    Let(w.plan.node[id], LAMBDA node :
    Let(getBuildChildrenWithDriverSide(w, id, "build"), LAMBDA cid :
        IF operator = "IndexLookUpReader" /\ cid = 0
        THEN DResult(w, need, TRUE)
        ELSE DResult(setDiagnosis(w, id,
                         pseudoStats(node) \o diskSpill(node)
                         \o (IF need /\ operator \in ScanKinds
                             THEN estimationError(node) ELSE <<>>)
                         \o operatorRule(w, id, operator, cid)),
                     need, FALSE)))

\* Lines 218-310: the node's own diagnosis once its children are done; need is
\* diagOp.needUdateStatistics as the children left it.
diagnoseNode(w, id, operator, need) ==
    Let(w.plan.node[id], LAMBDA node :
    Let(getBuildChildrenWithDriverSide(w, id, "build"), LAMBDA cid :
        \* getOperatorType(nil): nil pointer dereference
        IF operator = "IndexLookUpReader" /\ cid = 0
        THEN DResult(w, need /\ operator \in ScanKinds, TRUE)
        ELSE DResult(setDiagnosis(w, id,
                         pseudoStats(node) \o diskSpill(node)
                         \o (IF need /\ operator \in ScanKinds
                             THEN estimationError(node) ELSE <<>>)
                         \o operatorRule(w, id, operator, cid)),
                     need /\ operator \in ScanKinds, FALSE)))

diagnosticOperatorNode(w, id, diagOp) ==
    Strict(diagnosticOperatorNodes(w, w.plan.kids[id], diagOp), LAMBDA sub :
        IF sub.panic THEN sub
        ELSE diagnoseNode(sub.w, id, getOperatorType(w.plan.node[id]), sub.need))

\* The loop of lines 322-331 from child i on; every child gets the caller's diagOp.
diagnoseEach(w, nodes, i, diagOp, acc) ==
    IF i > Len(nodes) THEN DResult(w, acc, FALSE)
    ELSE Strict(diagnosticOperatorNode(w, nodes[i], diagOp), LAMBDA r :
         IF r.panic THEN r
         ELSE diagnoseEach(r.w, nodes, i + 1, diagOp, acc \/ r.need))

diagnosticOperatorNodes(w, nodes, diagOp) ==
    IF Len(nodes) = 0 THEN DResult(w, TRUE, FALSE)
    ELSE diagnoseEach(w, nodes, 1, diagOp, FALSE)

newDiagnosticOperation == FALSE

diagnosticOperator(w) ==
    Strict(diagnosticOperatorNode(w, MainTree, newDiagnosticOperation), LAMBDA m :
        IF m.panic THEN m
        ELSE diagnosticOperatorNodes(m.w, w.plan.ctes, newDiagnosticOperation))

---------------------------------------------------------------------------
(* Decoded plans.  A document is what json.Marshal of the decoded          *)
(* ExplainData yields: 64-bit integer fields (actRows, memoryBytes,        *)
(* diskBytes) are JSON strings, estRows is a JSON number, and a field      *)
(* holding its zero value is left out.                                     *)

MaxNodes == 3

\* The parent of every operator but the first; 0 marks the root of a cte tree.
Shapes(n) == {par \in [2..n -> 0..(n - 1)] : \A i \in 2..n : par[i] < i}

kidsOf(par, n, id) == SelectSeq([i \in 1..n |-> i], LAMBDA i : i >= 2 /\ par[i] = id)

Doc(par, n, nodes) ==
    [node |-> nodes,
     kids |-> [id \in 1..n |-> kidsOf(par, n, id)],
     ctes |-> kidsOf(par, n, 0)]

NoPlan == [node |-> <<>>, kids |-> <<>>, ctes |-> <<>>]

Op(name, side, time, group, more) ==
    JObj(more
         @@ (IF side = "" THEN EmptyMap ELSE "driverSide" :> JStr(side))
         @@ (IF time = "" THEN EmptyMap ELSE "rootBasicExecInfo" :> JStr(time))
         @@ (IF group = <<>> THEN EmptyMap
             ELSE "rootGroupExecInfo" :> JArr([i \in 1..Len(group) |-> JStr(group[i])]))
         @@ [name |-> JStr(name), memoryBytes |-> JStr("-1"), diskBytes |-> JStr("-1")])

CopScan(name, side, more) ==
    Op(name, side, "", <<>>,
       more @@ [storeType |-> JStr("tikv"), taskType |-> JStr("cop"),
                copExecInfo |-> JStr("tikv_task:{proc max:6ns, avg:2ns, tasks:8}")])

\* Operators of the plans the duration pass is explored on.
DurationOps ==
    { Op("Apply_1", "", "time:8ns", <<"Concurrency:4">>, EmptyMap),
      Op("Selection_2", "build", "time:6ns, loops:1", <<"cacheHitRatio:50.000%">>,
         [actRows |-> JStr("4")]),
      Op("TableReader_3", "build", "time:6ns", <<"cacheHitRatio:100%">>,
         [actRows |-> JStr("4")]),
      Op("HashAgg_4", "build", "time:oops", <<>>, EmptyMap),
      Op("IndexLookUp_5", "probe", "time:12ns",
         <<"cop_task: {distsql_concurrency: 3}", "table_task: {num: 4, concurrency: 2}">>,
         [actRows |-> JStr("4")]),
      Op("IndexJoin_6", "", "time:9ns", <<"inner:{concurrency:2, task:4}">>,
         [actRows |-> JStr("2")]),
      CopScan("TableFullScan_7", "probe", [actRows |-> JStr("7")]) }

DurationDocs ==
    UNION { UNION { { Doc(par, n, nodes) : nodes \in [1..n -> DurationOps] }
                    : par \in Shapes(n) }
            : n \in 1..MaxNodes }

\* A coprocessor operator on store `store` with the given actRows text and
\* operatorInfo; estRows is a double, hence a JSON number.
Cop(name, store, rows, info) ==
    JObj([name |-> JStr(name), storeType |-> JStr(store), taskType |-> JStr("cop"),
          actRows |-> JStr(rows), estRows |-> JNum(1), operatorInfo |-> JStr(info),
          memoryBytes |-> JStr("-1"), diskBytes |-> JStr("-1"),
          copExecInfo |-> JStr("tikv_task:{proc max:6ns, avg:2ns, tasks:8}")])

\* A coprocessor scan with the given actual and estimated row counts; a count
\* of zero is the zero value of its field and is left out of the document.
CopRows(name, rows, est) ==
    JObj((IF rows = "0" THEN EmptyMap ELSE "actRows" :> JStr(rows))
         @@ (IF est = 0 THEN EmptyMap ELSE "estRows" :> JNum(est))
         @@ [name |-> JStr(name), storeType |-> JStr("tikv"), taskType |-> JStr("cop"),
             operatorInfo |-> JStr("keep order:false"),
             memoryBytes |-> JStr("-1"), diskBytes |-> JStr("-1"),
             copExecInfo |-> JStr("tikv_task:{proc max:6ns, avg:2ns, tasks:8}")])

\* Operators of the plans the diagnostic rules are explored on.
DiagOps ==
    { Cop("Selection_8", "tikv", "500", "eq(t.a,1)"),
      Cop("Selection_9", "tikv", "500", "eq(test.t.a, 1)"),
      Cop("TableFullScan_10", "tikv", "6000000", "keep order:false"),
      Cop("IndexFullScan_11", "tikv", "6000000", "keep order:false"),
      Cop("TableFullScan_12", "tikv", "2000000000", "keep order:false"),
      Cop("TableFullScan_13", "tiflash", "2000000000", "keep order:false"),
      CopRows("TableRangeScan_14", "0", 1000),
      CopRows("IndexRangeScan_15", "1000", 0),
      Op("HashJoin_16", "", "time:5ns",
         <<"build_hash_table:{total:1ns", "probe:{concurrency:5}">>, EmptyMap) }

MaxDiagNodes == 2

DiagDocs ==
    UNION { UNION { { Doc(par, n, nodes) : nodes \in [1..n -> DiagOps] }
                    : par \in Shapes(n) }
            : n \in 1..MaxDiagNodes }

\* Operators of the plans with a Shuffle above a ShuffleReceiver.
ShuffleOps ==
    { Op("Shuffle_17", "", "time:9ns", <<"ShuffleConcurrency:3">>, EmptyMap),
      Op("ShuffleReceiver_18", "", "time:6ns", <<>>, EmptyMap),
      Op("Sort_19", "", "time:12ns", <<>>, EmptyMap) }

ShuffleDocs ==
    UNION { UNION { { Doc(par, n, nodes) : nodes \in [1..n -> ShuffleOps] }
                    : par \in Shapes(n) }
            : n \in 1..MaxNodes }

PlanDocs == DurationDocs \cup DiagDocs \cup ShuffleDocs

PlanInputs ==
    {[kind |-> "empty"], [kind |-> "undecodable"]}
    \cup {[kind |-> "plan", doc |-> d] : d \in PlanDocs}

---------------------------------------------------------------------------
(* GenerateBinaryPlanJSON, one action per stage.                           *)

NoReturn == [returned |-> FALSE]
\* A return that hands back the text built so far together with the error.
ReturnPartial(empty, err) == [returned |-> TRUE, empty |-> ~err /\ empty, err |-> err]

Return(empty, err) == [returned |-> TRUE, empty |-> empty, err |-> err]

World == [plan |-> plan, conc |-> conc, writes |-> writes]

Fresh(p) ==
    [plan   |-> p,
     conc   |-> [id \in DOMAIN p.node |-> <<>>],
     writes |-> [id \in DOMAIN p.node |-> [duration |-> 0, diagnosis |-> 0]]]

Install(w) == plan' = w.plan /\ conc' = w.conc /\ writes' = w.writes

\* GenerateBinaryPlan and json.Marshal (lines 137-152): "" yields ("", nil),
\* text that does not decode yields ("", err).
Decode ==
    /\ pc = "call"
    /\ input.kind \in {"empty", "undecodable", "plan"}
    /\ IF input.kind = "plan"
       THEN /\ Install(Fresh(input.doc))
            /\ pc' = "format"
            /\ ret' = ret
       ELSE /\ pc' = "return"
            /\ ret' = Return(TRUE, input.kind = "undecodable")
            /\ UNCHANGED <<plan, conc, writes>>
    /\ UNCHANGED input

\* Lines 154-157.
Format ==
    /\ pc = "format"
    /\ plan' = formatBinaryPlanJSON(plan)
    /\ pc' = "duration"
    /\ UNCHANGED <<input, conc, writes, ret>>

\* Lines 159-162.
Duration ==
    /\ pc = "duration"
    /\ \E build \in Builds : \E r \in {analyzeDuration(World, build)} :
          /\ Install(r.w)
          /\ pc' = IF r.panic THEN "panic" ELSE IF r.err THEN "return" ELSE "diagnose"
          /\ ret' = IF ~r.panic /\ r.err THEN Return(TRUE, TRUE) ELSE ret
    /\ UNCHANGED input

\* Lines 164-169.
Diagnose ==
    /\ pc = "diagnose"
    /\ \E r \in {diagnosticOperator(World)} :
          /\ Install(r.w)
          /\ pc' = IF r.panic THEN "panic" ELSE "return"
          /\ ret' = IF r.panic THEN ret ELSE Return(FALSE, FALSE)
    /\ UNCHANGED input

\* GenerateBinaryPlanJSON of pkg/apiserver/utils: decode and marshal, no pass.
Marshal ==
    /\ pc = "call"
    /\ ret' = Return(input.kind # "plan", input.kind = "undecodable")
    /\ pc' = "marshalled"
    /\ IF input.kind = "plan" THEN Install(Fresh(input.doc))
       ELSE UNCHANGED <<plan, conc, writes>>
    /\ UNCHANGED input

Init ==
    /\ pc = "call"
    /\ input \in PlanInputs
    /\ plan = NoPlan
    /\ conc = <<>>
    /\ writes = <<>>
    /\ ret = NoReturn

Next == Decode \/ Format \/ Duration \/ Diagnose \/ Marshal

Spec == Init /\ [][Next]_vars

---------------------------------------------------------------------------
(* The formatting pass applied to its own output.                          *)

FormatOnce ==
    /\ pc = "tree"
    /\ plan' = formatBinaryPlanJSON(plan)
    /\ pc' = "once"
    /\ UNCHANGED <<input, conc, writes, ret>>

\* ret keeps the tree the second application starts from.
FormatTwice ==
    /\ pc = "once"
    /\ plan' = formatBinaryPlanJSON(plan)
    /\ ret' = [once |-> plan]
    /\ pc' = "twice"
    /\ UNCHANGED <<input, conc, writes>>

InitFormat ==
    /\ pc = "tree"
    /\ input \in {[kind |-> "plan", doc |-> d] : d \in PlanDocs}
    /\ plan = input.doc
    /\ conc = <<>>
    /\ writes = <<>>
    /\ ret = NoReturn

NextFormat == FormatOnce \/ FormatTwice

SpecFormat == InitFormat /\ [][NextFormat]_vars

---------------------------------------------------------------------------
(* useComparisonOperator on predicate texts.                               *)

Args == {"test.t.a", "test.t.b", "t.a", "1", "2", "minus(test.t1.b, 1)"}

Call(op, x, y) == op \o "(" \o x \o ", " \o y \o ")"

Atoms ==
    {Call(op, x, y) : op \in {"eq", "gt"}, x \in Args, y \in Args}
    \cup {"in(test.t.a, 1, 2, 3, 4)", "in(test.t.b, 1, 2, 3, 4)",
          "in(test.t.a, 1, 2, test.t.b, 4)", "isnull(test.t.a)",
          "not(isnull(test.t.a))", "eq(t.a,1)", "like(test.t.a, 1)", "index:a(a)",
          "eq(db1.t.a, db2.t.b)", "lt(db2.t.b, db1.t.a)", "eq(test.t.a, test2.t.b)",
          "eq(test.t.a, 1))", "(eq(test.t.a, 1)", "(eq(test.t.a, 1))",
          "or(eq(test.t.a, 1), eq(test.t.a, 2))"}

MoreAtoms ==
    {"eq(test.t.a, 2)", "eq(test.t.b, 1)", "in(test.t.b, 1, 2, 3, 4)", "gt(test.t.a, 1)"}

MaxConjuncts == 2

RECURSIVE Conjunctions(_)
Conjunctions(n) ==
    IF n = 1 THEN Atoms
    ELSE {p \o ", " \o q : p \in Conjunctions(n - 1), q \in MoreAtoms}

Predicates == UNION {Conjunctions(n) : n \in 1..MaxConjuncts}

\* ret keeps the result with the column set the loops extracted.
Match ==
    /\ pc = "predicate"
    /\ ret' = [value   |-> useComparisonOperator(input.text),
               columns |-> MatchOperators(1, input.text, FALSE, {}).columns]
    /\ pc' = "matched"
    /\ UNCHANGED <<input, plan, conc, writes>>

InitMatcher ==
    /\ pc = "predicate"
    /\ input \in {[kind |-> "predicate", text |-> t] : t \in Predicates}
    /\ plan = NoPlan
    /\ conc = <<>>
    /\ writes = <<>>
    /\ ret = NoReturn

NextMatcher == Match

SpecMatcher == InitMatcher /\ [][NextMatcher]_vars

---------------------------------------------------------------------------
(* The claims of the specification, on the pipeline (Spec).                *)

\* The duration pass has completed without error.
DurationDone == pc = "diagnose" \/ (pc = "return" /\ ~ret.empty)

\* Both passes have completed without error.
Returned == pc = "return" /\ ~ret.empty /\ ~ret.err

Nodes == DOMAIN plan.node

kindOf(id) == getOperatorType(plan.node[id])

hasDuration(id) == Get(plan.node[id], "duration").t = "str"

durationOf(id) == ParseDuration(MustString(Get(plan.node[id], "duration")))

hasDiagnosis(id) == Get(plan.node[id], "diagnosis").t = "arr"

diagnosisOf(id) == {MustString(m) : m \in {GetIndex(Get(plan.node[id], "diagnosis"), i) :
                                           i \in 1..Len(MustArray(Get(plan.node[id], "diagnosis")))}}

AtLeastOne(c) ==
    /\ c.joinConcurrency >= 1
    /\ c.copConcurrency >= 1
    /\ c.tableConcurrency >= 1
    /\ c.applyConcurrency >= 1
    /\ c.shuffleConcurrency >= 1

\* C1: in every state handed to a node during the duration pass, each of the
\* five multipliers (join, coprocessor, table, apply, shuffle) is at least 1;
\* the state handed to the probe child of an Apply is one of them.
C1_MultipliersAtLeastOne ==
    \A id \in DOMAIN conc : \A k \in 1..Len(conc[id]) : AtLeastOne(conc[id][k])

\* C2: once the duration pass has completed, the duration written on a node,
\* the root of the main tree included, is at least the duration written on
\* each of its children.
C2_ParentAtLeastChild ==
    DurationDone =>
        \A id \in Nodes : \A k \in 1..Len(plan.kids[id]) :
            hasDuration(plan.kids[id][k]) =>
                /\ hasDuration(id)
                /\ (~durationOf(id).err /\ ~durationOf(plan.kids[id][k]).err)
                       => durationOf(id).d >= durationOf(plan.kids[id][k]).d

\* C3: once both passes have completed without error, every node carries a
\* duration and a diagnosis list, each written exactly once.
C3_WrittenExactlyOnce ==
    Returned =>
        \A id \in Nodes :
            /\ hasDuration(id)
            /\ hasDiagnosis(id)
            /\ writes[id].duration = 1
            /\ writes[id].diagnosis = 1

\* The plan of C4: a Selection with predicate eq(t.a,1) and 500 actual rows over
\* a TableFullScan with 6,000,000 actual rows, both on tikv.
SelectionOverTableScan ==
    Doc((2 :> 1), 2, <<Cop("Selection_8", "tikv", "500", "eq(t.a,1)"),
                       Cop("TableFullScan_10", "tikv", "6000000", "keep order:false")>>)

\* C4: for that plan the diagnosis written on the Selection holds the
\* "consider adding an index on this column" message.
C4_AddIndexMessage ==
    (Returned /\ input.doc = SelectionOverTableScan) => MsgAddIndex \in diagnosisOf(MainTree)

\* actRows as the duration pass reads it (lines 529-532): the text of the field.
actRowsOf(id) == ParseFloat(MustString(Get(plan.node[id], "actRows")))

\* C5: the "consider using TiFlash" message is written on a node exactly when
\* it is a TableFullScan on tikv with more than 1,000,000,000 actual rows; a
\* TableFullScan on tikv with 2,000,000,000 actual rows is such a node.
C5_TiFlashMessage ==
    Returned =>
        \A id \in Nodes :
            MsgTiFlash \in diagnosisOf(id)
            <=> /\ kindOf(id) = "TableFullScan"
                /\ MustString(Get(plan.node[id], "storeType")) = "tikv"
                /\ ~actRowsOf(id).err
                /\ actRowsOf(id).num > 1000000000 * actRowsOf(id).den

\* C8: malformed or missing numeric or duration text in a node never aborts
\* the duration pass: a plan that decodes is never answered with an error.
C8_DurationNeverAborts ==
    (pc = "return" /\ input.kind = "plan") => ~ret.err

\* C9: the empty string is answered with the empty result and no error, and no
\* pass runs on it; whenever an error is returned the returned string is empty.
C9_EmptyAndErrors ==
    /\ input.kind = "empty" =>
          /\ pc \in {"call", "return", "marshalled"}
          /\ plan = NoPlan /\ conc = <<>> /\ writes = <<>>
          /\ ret.returned => (ret.empty /\ ~ret.err)
    /\ (ret.returned /\ ret.err) => ret.empty

\* An error of the duration pass is returned, after the pass has written on the tree.
C9_Witness ==
    /\ pc = "return" /\ input.kind = "plan"
    /\ ret.returned /\ ret.err /\ ret.empty
    /\ \E id \in Nodes : writes[id].duration > 0

\* diagOp.needUdateStatistics as the children of node id leave it (line 216).
needAfterChildren(id) ==
    diagnosticOperatorNodes(World, plan.kids[id], newDiagnosticOperation).need

\* The actual row count a node of the document carries, 0 when left out.
actualRows(id) ==
    atoi0(Get(plan.node[id], "actRows"))

\* The estimated row count a node of the document carries, 0 when left out.
estimatedRows(id) == MustFloat64(Get(plan.node[id], "estRows"))

\* max(a', e') / min(a', e') > 100, a zero count being replaced by 1 on its own.
errorAboveHundred(a, e) ==
    quotientAbove(Max({IF a = 0 THEN 1 ELSE a, IF e = 0 THEN 1 ELSE e}),
                  Min({IF a = 0 THEN 1 ELSE a, IF e = 0 THEN 1 ELSE e}), 100)

\* C11: on a scan or Selection node whose needs-statistics-check flag is set,
\* the estimation-error message is written exactly when the actual and the
\* estimated row count, each zero replaced by 1 on its own, differ by more
\* than a factor of 100; actual rows 0 with estimated rows 1000 is such a node.
C11_EstimationError ==
    Returned =>
        \A id \in Nodes :
            (kindOf(id) \in ScanKinds /\ needAfterChildren(id)) =>
                (MsgEstimation \in diagnosisOf(id)
                 <=> errorAboveHundred(actualRows(id), estimatedRows(id)))

\* The flag diagnosticOperatorNode returns for node id when called with diagOp.
needReturned(id, diagOp) == diagnosticOperatorNode(World, id, diagOp).need

\* Some downward path from node id to a leaf holds scan or Selection nodes only.
RECURSIVE scanPath(_)
scanPath(id) ==
    /\ kindOf(id) \in ScanKinds
    /\ \/ Len(plan.kids[id]) = 0
       \/ \E k \in 1..Len(plan.kids[id]) : scanPath(plan.kids[id][k])

\* C12: the flag returned for a node, whatever flag the caller handed in, is
\* true exactly when the node is of a scan or Selection kind and it is a leaf
\* or one of its children returned true; hence the estimation-error message
\* is only on nodes with a path of scan/Selection nodes down to a leaf.
C12_NeedsStatisticsCheck ==
    Returned =>
        \A id \in Nodes :
            /\ \A diagOp \in BOOLEAN :
                  needReturned(id, diagOp)
                  <=> /\ kindOf(id) \in ScanKinds
                      /\ \/ Len(plan.kids[id]) = 0
                         \/ \E k \in 1..Len(plan.kids[id]) :
                               needReturned(plan.kids[id][k], diagOp)
            /\ \A diagOp \in BOOLEAN : needReturned(id, diagOp) <=> scanPath(id)
            /\ MsgEstimation \in diagnosisOf(id) => scanPath(id)

\* A scan over a node of another kind over a scan leaf: the leaf returns true,
\* the node between resets the flag, and the scan above it returns false.
C12_Witness ==
    /\ Returned
    /\ \E id \in Nodes : \E k \in 1..Len(plan.kids[id]) :
          \E g \in 1..Len(plan.kids[plan.kids[id][k]]) :
              /\ kindOf(id) \in ScanKinds
              /\ kindOf(plan.kids[id][k]) \notin ScanKinds
              /\ needReturned(plan.kids[plan.kids[id][k]][g], FALSE)
              /\ ~needReturned(plan.kids[id][k], FALSE)
              /\ ~needReturned(id, FALSE)

\* The state node p hands to its children: the state it was handed, resolved
\* by getConcurrency (line 476).
resolved(p) == getConcurrency(plan.node[p], kindOf(p), conc[p][1])

\* The state the claim gives a child with driver side `side` under a parent
\* of kind operator whose resolved state is c.
overridden(operator, side, c) ==
    IF operator \in JoinKinds /\ side # "probe" THEN [c EXCEPT !.joinConcurrency = 1]
    ELSE IF operator \in ReaderKinds /\ side # "probe" THEN [c EXCEPT !.tableConcurrency = 1]
    ELSE IF operator = "ShuffleReceiver" THEN [c EXCEPT !.shuffleConcurrency = 1]
    ELSE c

\* The plan with the two children of node p in the other order.
swapped(p) == [plan EXCEPT !.kids[p] = <<@[2], @[1]>>]

\* Two results of the duration pass agree: both fail, or neither fails and
\* every node carries the same duration.
sameDurations(r1, r2) ==
    /\ Failed(r1) <=> Failed(r2)
    /\ ~Failed(r1) =>
          \A id \in Nodes : Get(r1.w.plan.node[id], "duration")
                             = Get(r2.w.plan.node[id], "duration")

C17_NeverCrashes == pc # "panic"

\* The state entry i of node id is processed in, c being the state handed to
\* the node: the loop of getConcurrency over the entries before i.
RECURSIVE stateBefore(_, _, _)
stateBefore(id, c, i) ==
    IF i = 1 THEN c
    ELSE concurrencyEntry(GetIndex(Get(plan.node[id], "rootGroupExecInfo"), i - 1),
                          kindOf(id), stateBefore(id, c, i - 1))

\* min(reported table-task concurrency, reported table-task count / join).
effectiveTable(e, c) ==
    Min({atoi0(GetPath2(e, "table_task", "concurrency")),
         TruncDiv(atoi0(GetPath2(e, "table_task", "num")), c.joinConcurrency)})

\* C10: an entry of an IndexLookUpReader or IndexMergeReader with positive
\* effective table concurrency e leaves the table multiplier at the incoming
\* table multiplier times e.
C10_TableMultiplier ==
    \A id \in DOMAIN conc : \A k \in 1..Len(conc[id]) :
        kindOf(id) \in ReaderKinds =>
            \A i \in 1..Len(MustArray(Get(plan.node[id], "rootGroupExecInfo"))) :
                LET e == GetIndex(Get(plan.node[id], "rootGroupExecInfo"), i)
                    c == stateBefore(id, conc[id][k], i)
                IN  effectiveTable(e, c) > 0 =>
                        tableEntry(e, c).tableConcurrency
                            = c.tableConcurrency * effectiveTable(e, c)

---------------------------------------------------------------------------
(* The claims on the formatting pass (SpecFormat) and on the matcher       *)
(* (SpecMatcher).                                                          *)

\* The summary strings of node id of the decoded document.
summaries(id) == MustStringArray(Get(input.doc.node[id], "rootGroupExecInfo"))

\* The grouped execution-info array of node id after formatting.
grouped(id) == MustArray(Get(plan.node[id], "rootGroupExecInfo"))

\* C15: after one formatting pass the grouped execution-info array of a node
\* has one entry per summary string, in order: the structured object where
\* the conversion succeeded and the unmodified string where it failed, with
\* no further (null) entry.
C15_OneEntryPerSummary ==
    pc = "once" =>
        \A id \in Nodes :
            /\ Len(grouped(id)) = Len(summaries(id))
            /\ \A k \in 1..Len(grouped(id)) : grouped(id)[k] # JNull
            /\ \A k \in 1..Min({Len(grouped(id)), Len(summaries(id))}) :
                  grouped(id)[k] = IF formatJSON(summaries(id)[k]).err
                                   THEN JStr(summaries(id)[k])
                                   ELSE formatJSON(summaries(id)[k]).v

\* C6: the formatting pass applied to a formatted tree yields the same tree.
C6_FormatIdempotent == pc = "twice" => plan = ret.once

\* C7: the six literal cases, and: the result is true only when a supported
\* comparison was found and the extracted columns are one single column.
C7_Matcher ==
    pc = "matched" =>
        /\ input.text = "eq(test.t.a, 1)" => ret.value
        /\ input.text = "eq(test.t.a, 1), eq(test.t.a, 2)" => ret.value
        /\ input.text = "in(test.t.a, 1, 2, 3, 4)" => ret.value
        /\ input.text = "eq(minus(test.t1.b, 1), 1)" => ~ret.value
        /\ input.text = "eq(test.t.a, 1), eq(test.t.b, 1)" => ~ret.value
        /\ input.text = "in(test.t.a, 1, 2, 3, 4), in(test.t.b, 1, 2, 3, 4)" => ~ret.value
        /\ ret.value =>
              /\ \E k \in 1..Len(needCheckOperator) :
                    Contains(input.text, needCheckOperator[k] \o "(")
              /\ Cardinality(ret.columns) = 1

\* The arguments of the binary comparisons of the explored predicates.
ComparedArgs == Args \cup {"db1.t.a", "db2.t.b", "test2.t.b"}

\* C13: a predicate holding a binary comparison eq/ge/gt/le/lt(x, y) in which
\* not exactly one of x and y looks like a fully-qualified column is rejected;
\* so is eq(db1.t.a, db2.t.b), which compares two columns.
C13_TwoColumnsRejected ==
    pc = "matched" =>
        /\ \A op \in {"eq", "ge", "gt", "le", "lt"} : \A x \in ComparedArgs : \A y \in ComparedArgs :
              (Contains(input.text, Call(op, x, y)) /\ (IsColumn(x) <=> IsColumn(y)))
                  => ~ret.value
        /\ input.text = "eq(db1.t.a, db2.t.b)" => ~ret.value

\* The text left once every supported span has been cut out (lines 357-417).
residual(text) == MatchOperators(1, text, FALSE, {}).rest

\* C14: the matcher returns false whenever the residual text holds an
\* unmatched parenthesis, as for eq(test.t.a, 1)), and returns true only if
\* one single column was collected and a span op(...) was found.
C14_UnmatchedParenthesis ==
    pc = "matched" =>
        /\ Count(residual(input.text), "(") # Count(residual(input.text), ")") => ~ret.value
        /\ input.text = "eq(test.t.a, 1))" => ~ret.value
        /\ ret.value =>
              /\ Cardinality(ret.columns) = 1
              /\ \E k \in 1..Len(needCheckOperator) :
                    Count(input.text, needCheckOperator[k] \o "(") > 0

\* Two comparisons on one column are matched.
C7_Witness ==
    /\ pc = "matched"
    /\ input.text = "eq(test.t.a, 1), eq(test.t.a, 2)"
    /\ ret.value
    /\ ret.columns = {"test.t.a"}

====
